---- MODULE Spec2Model ----
(***************************************************************************)
(* Model of src/src/lib.rs: process_otlp_strings and its diagnostic twin   *)
(* process_otlp_strings_debug.  One behaviour is a call of                 *)
(* process_otlp_strings on an input, followed by a call of                 *)
(* process_otlp_strings_debug on the same input.  Every loop iteration of  *)
(* the source is one action; a loop over the HashMap takes its entries in  *)
(* an arbitrary order.                                                     *)
(*                                                                         *)
(* Vec<u8> is a sequence of bytes (0..255).  Vec indices are zero-based as *)
(* in the source: element k of a Vec v is v[k + 1] in the sequence.        *)
(* unique_strings is a function on 0 .. len-1.                             *)
(***************************************************************************)
EXTENDS Integers, Sequences, FiniteSets, TLC

\* ---------------------------------------------------------------- bounds

\* Longest input (number of raw entries) a call is given.
MaxInputLen == 3

\* The byte sequences an input entry is drawn from:
\*   <<>>                 the empty entry (well-formed)
\*   "a"                  one ASCII byte
\*   C3 A9                U+00E9, a two-byte sequence
\*   E2 82 AC             U+20AC, a three-byte sequence
\*   C3                   a truncated two-byte sequence
\*   FF F0 9F             the malformed entry of tests::test_invalid_data
Entries ==
    { <<>>, <<97>>, <<195, 169>>, <<226, 130, 172>>, <<195>>, <<255, 240, 159>> }

RECURSIVE SeqsUpTo(_, _)
SeqsUpTo(S, n) ==
    IF n = 0 THEN { <<>> }
    ELSE LET shorter == SeqsUpTo(S, n - 1)
         IN  shorter \cup { Append(s, e) : s \in { t \in shorter : Len(t) = n - 1 }, e \in S }

Inputs == SeqsUpTo(Entries, MaxInputLen)

\* ------------------------------------------------------ UTF-8 validation

InRange(x, lo, hi) == lo <= x /\ x <= hi

IsCont(x) == InRange(x, 128, 191)

\* Length of the well-formed UTF-8 sequence that starts at position p of b
\* (1-based), or 0 when no well-formed sequence starts there.
CharLen(b, p) ==
    LET n  == Len(b) - p + 1
        b0 == b[p]
    IN  IF b0 <= 127 THEN 1
        ELSE IF InRange(b0, 194, 223)
            THEN IF n >= 2 /\ IsCont(b[p + 1]) THEN 2 ELSE 0
        ELSE IF InRange(b0, 224, 239)
            THEN IF /\ n >= 3
                    /\ InRange(b[p + 1], IF b0 = 224 THEN 160 ELSE 128,
                                         IF b0 = 237 THEN 159 ELSE 191)
                    /\ IsCont(b[p + 2])
                 THEN 3 ELSE 0
        ELSE IF InRange(b0, 240, 244)
            THEN IF /\ n >= 4
                    /\ InRange(b[p + 1], IF b0 = 240 THEN 144 ELSE 128,
                                         IF b0 = 244 THEN 143 ELSE 191)
                    /\ IsCont(b[p + 2])
                    /\ IsCont(b[p + 3])
                 THEN 4 ELSE 0
        ELSE 0

RECURSIVE ValidFrom(_, _)
ValidFrom(b, p) ==
    IF p > Len(b) THEN TRUE
    ELSE LET n == CharLen(b, p)
         IN  IF n = 0 THEN FALSE ELSE ValidFrom(b, p + n)

\* from_utf8(key).is_ok()
IsValidUtf8(b) == ValidFrom(b, 1)

\* simdutf8::basic::Utf8Error is a zero-sized error: it carries neither an
\* offset nor the bytes.  OtlpProcessingError::Utf8Error wraps it and adds
\* no field of its own.
Utf8Error == [variant |-> "Utf8Error"]

\* from_utf8(key)
from_utf8(b) ==
    IF IsValidUtf8(b) THEN [tag |-> "Ok"] ELSE [tag |-> "Err", err |-> Utf8Error]

\* ------------------------------------------------------------- Strings

\* A String is its buffer of bytes.
String(b) == [vec |-> b]

StringNew == String(<<>>)

\* String::from_utf8_unchecked(bytes): the buffer is taken over as it is.
\* On bytes that are not well-formed the call is undefined behaviour: any
\* String may come out of it.
from_utf8_unchecked(b) ==
    IF IsValidUtf8(b) THEN { String(b) } ELSE { String(e) : e \in Entries }

\* Length of the maximal invalid prefix at p that from_utf8_lossy replaces by
\* one U+FFFD (only used where CharLen(b, p) = 0).
InvalidLen(b, p) ==
    LET n  == Len(b) - p + 1
        b0 == b[p]
        second ==
            /\ n >= 2
            /\ \/ InRange(b0, 194, 223) /\ IsCont(b[p + 1])
               \/ InRange(b0, 224, 239)
                    /\ InRange(b[p + 1], IF b0 = 224 THEN 160 ELSE 128,
                                         IF b0 = 237 THEN 159 ELSE 191)
               \/ InRange(b0, 240, 244)
                    /\ InRange(b[p + 1], IF b0 = 240 THEN 144 ELSE 128,
                                         IF b0 = 244 THEN 143 ELSE 191)
        third == second /\ InRange(b0, 240, 244) /\ n >= 3 /\ IsCont(b[p + 2])
    IN  IF third THEN 3 ELSE IF second THEN 2 ELSE 1

RECURSIVE LossyFrom(_, _)
LossyFrom(b, p) ==
    IF p > Len(b) THEN <<>>
    ELSE LET n == CharLen(b, p)
         IN  IF n > 0
             THEN SubSeq(b, p, p + n - 1) \o LossyFrom(b, p + n)
             ELSE <<239, 191, 189>> \o LossyFrom(b, p + InvalidLen(b, p))

\* String::from_utf8_lossy(bytes)
from_utf8_lossy(b) == String(LossyFrom(b, 1))

\* ---------------------------------------------------------------- state

VARIABLES
    raw_strings,        \* the argument of both calls
    fn,                 \* the function that is running
    pc,                 \* the loop the running call is in
    i,                  \* entries of raw_strings the interning loop has consumed
    dictionary,         \* HashMap<Vec<u8>, usize>
    dictionary_array,   \* Vec<usize>, one index per consumed entry
    iter,               \* keys the running iteration over the HashMap has yet to yield
    unique_strings,     \* Vec<String>, indexed by dictionary index
    result,             \* the Vec<String> being collected
    ret,                \* what the running call has returned, if it has
    plain_ret,          \* what process_otlp_strings returned
    stdout,             \* lines printed so far
    validations,        \* history: calls of from_utf8 made by the running call
    validated,          \* history: keys from_utf8 accepted in the running call
    rejected,           \* history: keys from_utf8 refused in the running call
    converted,          \* history: byte vectors handed to from_utf8_unchecked
    writes,             \* history: assignments made to each slot of unique_strings
    entered             \* history: loops the running call has entered

vars ==
    << raw_strings, fn, pc, i, dictionary, dictionary_array, iter, unique_strings,
       result, ret, plain_ret, stdout, validations, validated, rejected, converted,
       writes, entered >>

history == << validations, validated, rejected, converted, writes, entered >>

NoReturn == [tag |-> "Running"]

Ok(v) == [tag |-> "Ok", value |-> v]

Err(e) == [tag |-> "Err", err |-> e]

\* An index out of bounds, the only panic the two functions can raise.
Panic == [tag |-> "Panic"]

EmptyMap == [k \in {} |-> 0]

\* dictionary.len()
MapLen(d) == Cardinality(DOMAIN d)

\* dictionary.get(&raw).is_some()
Contains(d, raw) == raw \in DOMAIN d

\* dictionary.insert(raw, new_index)
Insert(d, raw, index) ==
    [k \in DOMAIN d \cup {raw} |-> IF k = raw THEN index ELSE d[k]]

\* Mutant of NewIndex: identifiers counted from one.
NewIndexFromOne(d) == MapLen(d) + 1

\* let new_index = dictionary.len();
NewIndex(d) == MapLen(d)

\* Mutant of IndexFor: the next index is pushed even for a known content.
IndexForStale(d, raw) == MapLen(d)

\* The index pushed to dictionary_array for raw.
IndexFor(d, raw) == IF Contains(d, raw) THEN d[raw] ELSE NewIndex(d)

\* Mutant of Interned: a known content is inserted again under a new index.
InternedOverwrite(d, raw) == Insert(d, raw, MapLen(d))

\* The dictionary after raw has been consumed.
Interned(d, raw) == IF Contains(d, raw) THEN d ELSE Insert(d, raw, NewIndex(d))

\* dictionary.keys(): the keys an iteration over the map yields, in no order.
Keys(d) == DOMAIN d

\* Mutant of NewTable: the table is one slot short.
NewTableShort(d) == [k \in 0 .. MapLen(d) - 2 |-> StringNew]

\* vec![String::new(); dictionary.len()]
NewTable(d) == [k \in 0 .. MapLen(d) - 1 |-> StringNew]

Init ==
    /\ raw_strings \in Inputs
    /\ fn = "process_otlp_strings"
    /\ plain_ret = NoReturn
    /\ stdout = <<>>
    /\ pc = "intern"
    /\ i = 0
    /\ dictionary = EmptyMap
    /\ dictionary_array = <<>>
    /\ iter = {}
    /\ unique_strings = <<>>
    /\ result = <<>>
    /\ ret = NoReturn
    /\ validations = 0
    /\ validated = {}
    /\ rejected = {}
    /\ converted = {}
    /\ writes = <<>>
    /\ entered = {"intern"}

\* ------------------------------------------------- process_otlp_strings

\* One iteration of `for raw in raw_strings`.
Intern ==
    /\ fn = "process_otlp_strings"
    /\ pc = "intern"
    /\ i < Len(raw_strings)
    /\ LET raw == raw_strings[i + 1]
       IN  /\ dictionary_array' = Append(dictionary_array, IndexFor(dictionary, raw))
           /\ dictionary' = Interned(dictionary, raw)
    /\ i' = i + 1
    /\ UNCHANGED << raw_strings, fn, pc, iter, unique_strings, result, ret, plain_ret,
                    stdout, history >>

\* The interning loop is exhausted; `for key in dictionary.keys()` begins.
InternDone ==
    /\ fn = "process_otlp_strings"
    /\ pc = "intern"
    /\ i = Len(raw_strings)
    /\ pc' = "validate"
    /\ iter' = Keys(dictionary)
    /\ entered' = entered \cup {"validate"}
    /\ UNCHANGED << raw_strings, fn, i, dictionary, dictionary_array, unique_strings,
                    result, ret, plain_ret, stdout, validations, validated, rejected,
                    converted, writes >>

\* Mutant of Validate: the result of from_utf8 is dropped (no `?`).
ValidateIgnoreResult(key) ==
    /\ fn = "process_otlp_strings"
    /\ pc = "validate"
    /\ key \in iter
    /\ validations' = validations + 1
    /\ iter' = iter \ {key}
    /\ IF from_utf8(key).tag = "Ok"
       THEN validated' = validated \cup {key} /\ UNCHANGED rejected
       ELSE rejected' = rejected \cup {key} /\ UNCHANGED validated
    /\ UNCHANGED << raw_strings, fn, pc, i, dictionary, dictionary_array,
                    unique_strings, result, ret, plain_ret, stdout, converted, writes,
                    entered >>

\* Mutant of Validate: the error is kept and the loop carries on; it is
\* returned once the loop is over.
ValidateCollect(key) ==
    /\ fn = "process_otlp_strings"
    /\ pc = "validate"
    /\ key \in iter
    /\ validations' = validations + 1
    /\ LET r == from_utf8(key)
           last == iter = {key}
       IN  IF r.tag = "Ok"
           THEN /\ validated' = validated \cup {key}
                /\ iter' = IF last /\ rejected # {} THEN iter ELSE iter \ {key}
                /\ pc' = IF last /\ rejected # {} THEN "done" ELSE pc
                /\ UNCHANGED << ret, rejected >>
           ELSE /\ ret' = Err(r.err)
                /\ rejected' = rejected \cup {key}
                /\ iter' = IF last THEN iter ELSE iter \ {key}
                /\ pc' = IF last THEN "done" ELSE pc
                /\ UNCHANGED validated
    /\ UNCHANGED << raw_strings, fn, i, dictionary, dictionary_array, unique_strings,
                    result, plain_ret, stdout, converted, writes, entered >>

\* One iteration of the validation loop: `from_utf8(key)?`.
Validate(key) ==
    /\ fn = "process_otlp_strings"
    /\ pc = "validate"
    /\ key \in iter
    /\ validations' = validations + 1
    /\ LET r == from_utf8(key)
       IN  IF r.tag = "Ok"
           THEN /\ iter' = iter \ {key}
                /\ validated' = validated \cup {key}
                /\ UNCHANGED << pc, ret, rejected >>
           ELSE /\ ret' = Err(r.err)
                /\ pc' = "done"
                /\ rejected' = rejected \cup {key}
                /\ UNCHANGED << iter, validated >>
    /\ UNCHANGED << raw_strings, fn, i, dictionary, dictionary_array, unique_strings,
                    result, plain_ret, stdout, converted, writes, entered >>

\* Every key passed: unique_strings is allocated and the dictionary is moved
\* into `for (key_bytes, index) in dictionary`.
ValidateDone ==
    /\ fn = "process_otlp_strings"
    /\ pc = "validate"
    /\ iter = {}
    /\ unique_strings' = NewTable(dictionary)
    /\ writes' = [k \in 0 .. MapLen(dictionary) - 1 |-> 0]
    /\ iter' = Keys(dictionary)
    /\ pc' = "convert"
    /\ entered' = entered \cup {"convert"}
    /\ UNCHANGED << raw_strings, fn, i, dictionary, dictionary_array, result, ret,
                    plain_ret, stdout, validations, validated, rejected, converted >>

\* Mutant of Convert: the checked String::from_utf8 is used, so every key is
\* validated a second time.
ConvertChecked(key) ==
    /\ fn = "process_otlp_strings"
    /\ pc = "convert"
    /\ key \in iter
    /\ iter' = iter \ {key}
    /\ validations' = validations + 1
    /\ LET index == dictionary[key]
       IN  IF from_utf8(key).tag = "Ok" /\ index \in DOMAIN unique_strings
           THEN /\ unique_strings' = [unique_strings EXCEPT ![index] = String(key)]
                /\ writes' = [writes EXCEPT ![index] = @ + 1]
                /\ UNCHANGED << pc, ret >>
           ELSE /\ ret' = Panic
                /\ pc' = "done"
                /\ UNCHANGED << unique_strings, writes >>
    /\ UNCHANGED << raw_strings, fn, i, dictionary, dictionary_array, result, plain_ret,
                    stdout, validated, rejected, converted, entered >>

\* One iteration of the draining loop: `unique_strings[index] = s`.
Convert(key) ==
    /\ fn = "process_otlp_strings"
    /\ pc = "convert"
    /\ key \in iter
    /\ iter' = iter \ {key}
    /\ converted' = converted \cup {key}
    /\ LET index == dictionary[key]
       IN  \E s \in from_utf8_unchecked(key) :
               IF index \in DOMAIN unique_strings
               THEN /\ unique_strings' = [unique_strings EXCEPT ![index] = s]
                    /\ writes' = [writes EXCEPT ![index] = @ + 1]
                    /\ UNCHANGED << pc, ret >>
               ELSE /\ ret' = Panic
                    /\ pc' = "done"
                    /\ UNCHANGED << unique_strings, writes >>
    /\ UNCHANGED << raw_strings, fn, i, dictionary, dictionary_array, result, plain_ret,
                    stdout, validations, validated, rejected, entered >>

\* The dictionary is drained; dictionary_array.into_iter().map(..) begins.
ConvertDone ==
    /\ fn = "process_otlp_strings"
    /\ pc = "convert"
    /\ iter = {}
    /\ pc' = "reconstruct"
    /\ entered' = entered \cup {"reconstruct"}
    /\ UNCHANGED << raw_strings, fn, i, dictionary, dictionary_array, iter,
                    unique_strings, result, ret, plain_ret, stdout, validations,
                    validated, rejected, converted, writes >>

\* One element of the map: `unique_strings[idx].clone()`.
Reconstruct ==
    /\ fn = "process_otlp_strings"
    /\ pc = "reconstruct"
    /\ Len(result) < Len(dictionary_array)
    /\ LET idx == dictionary_array[Len(result) + 1]
       IN  IF idx \in DOMAIN unique_strings
           THEN /\ result' = Append(result, unique_strings[idx])
                /\ UNCHANGED << pc, ret >>
           ELSE /\ ret' = Panic
                /\ pc' = "done"
                /\ UNCHANGED result
    /\ UNCHANGED << raw_strings, fn, i, dictionary, dictionary_array, iter,
                    unique_strings, plain_ret, stdout, history >>

\* collect() is complete: `Ok(result)`.
Return ==
    /\ fn = "process_otlp_strings"
    /\ pc = "reconstruct"
    /\ Len(result) = Len(dictionary_array)
    /\ ret' = Ok(result)
    /\ pc' = "done"
    /\ UNCHANGED << raw_strings, fn, i, dictionary, dictionary_array, iter,
                    unique_strings, result, plain_ret, stdout, history >>

\* ------------------------------------------- process_otlp_strings_debug

\* println!(..): one printed line, its text and the values formatted into it.
Line(text, args) == [text |-> text, args |-> args]

\* The "Input[i]" lines printed before interning starts.
RECURSIVE InputLines(_, _)
InputLines(raw, n) ==
    IF n = 0 THEN <<>>
    ELSE Append(InputLines(raw, n - 1),
                Line("Input", << n - 1, raw[n], from_utf8_lossy(raw[n]) >>))

\* dict_entries after sort_by_key: the entries of the map by ascending index.
RECURSIVE SortedEntries(_, _)
SortedEntries(d, keys) ==
    IF keys = {} THEN <<>>
    ELSE LET first == CHOOSE k \in keys : \A other \in keys : d[k] <= d[other]
         IN  << << first, d[first] >> >> \o SortedEntries(d, keys \ {first})

\* The "Dictionary[index]" lines printed after interning.
DictionaryLines(d) ==
    LET sorted == SortedEntries(d, DOMAIN d)
    IN  [n \in 1 .. Len(sorted) |->
            Line("Dictionary", << sorted[n][2], sorted[n][1],
                                  from_utf8_lossy(sorted[n][1]) >>)]

\* process_otlp_strings has returned; process_otlp_strings_debug is called on
\* the same input, prints its header and the input, and creates its locals.
DebugEntry ==
    /\ fn = "process_otlp_strings"
    /\ pc = "done"
    /\ plain_ret' = ret
    /\ fn' = "process_otlp_strings_debug"
    /\ stdout' = << Line("=== OTLP String Processing Debug ===", <<>>),
                    Line("Step 1", << Len(raw_strings) >>) >>
                 \o InputLines(raw_strings, Len(raw_strings))
    /\ pc' = "intern"
    /\ i' = 0
    /\ dictionary' = EmptyMap
    /\ dictionary_array' = <<>>
    /\ iter' = {}
    /\ unique_strings' = <<>>
    /\ result' = <<>>
    /\ ret' = NoReturn
    /\ validations' = 0
    /\ validated' = {}
    /\ rejected' = {}
    /\ converted' = {}
    /\ writes' = <<>>
    /\ entered' = {"intern"}
    /\ UNCHANGED raw_strings

\* One iteration of `for (input_idx, raw) in raw_strings.iter().enumerate()`.
DebugIntern ==
    /\ fn = "process_otlp_strings_debug"
    /\ pc = "intern"
    /\ i < Len(raw_strings)
    /\ LET raw == raw_strings[i + 1]
       IN  /\ stdout' = Append(stdout,
                Line(IF Contains(dictionary, raw) THEN "Found duplicate" ELSE "New entry",
                     << i, IndexFor(dictionary, raw), from_utf8_lossy(raw) >>))
           /\ dictionary_array' = Append(dictionary_array, IndexFor(dictionary, raw))
           /\ dictionary' = Interned(dictionary, raw)
    /\ i' = i + 1
    /\ UNCHANGED << raw_strings, fn, pc, iter, unique_strings, result, ret, plain_ret,
                    history >>

\* The interning loop is exhausted: the dictionary and dictionary_array are
\* printed and `for (i, key) in dictionary.keys().enumerate()` begins.
DebugInternDone ==
    /\ fn = "process_otlp_strings_debug"
    /\ pc = "intern"
    /\ i = Len(raw_strings)
    /\ stdout' = stdout
                 \o << Line("Dictionary contents", << MapLen(dictionary) >>) >>
                 \o DictionaryLines(dictionary)
                 \o << Line("Dictionary array", << dictionary_array >>),
                       Line("Step 2", << MapLen(dictionary) >>) >>
    /\ pc' = "validate"
    /\ iter' = Keys(dictionary)
    /\ entered' = entered \cup {"validate"}
    /\ UNCHANGED << raw_strings, fn, i, dictionary, dictionary_array, unique_strings,
                    result, ret, plain_ret, validations, validated, rejected,
                    converted, writes >>

\* One iteration of the validation loop: `match from_utf8(key)`.
DebugValidate(key) ==
    /\ fn = "process_otlp_strings_debug"
    /\ pc = "validate"
    /\ key \in iter
    /\ validations' = validations + 1
    /\ LET r == from_utf8(key)
           n == MapLen(dictionary) - Cardinality(iter)
       IN  IF r.tag = "Ok"
           THEN /\ stdout' = Append(stdout, Line("is valid UTF-8", << n, String(key) >>))
                /\ iter' = iter \ {key}
                /\ validated' = validated \cup {key}
                /\ UNCHANGED << pc, ret, rejected >>
           ELSE /\ stdout' = Append(stdout, Line("is invalid UTF-8", << n, key, r.err >>))
                /\ ret' = Err(r.err)
                /\ pc' = "done"
                /\ rejected' = rejected \cup {key}
                /\ UNCHANGED << iter, validated >>
    /\ UNCHANGED << raw_strings, fn, i, dictionary, dictionary_array, unique_strings,
                    result, plain_ret, converted, writes, entered >>

\* Every key passed: "Step 3" is printed, unique_strings is allocated and the
\* dictionary is moved into `for (key_bytes, index) in dictionary`.
DebugValidateDone ==
    /\ fn = "process_otlp_strings_debug"
    /\ pc = "validate"
    /\ iter = {}
    /\ stdout' = Append(stdout, Line("Step 3", <<>>))
    /\ unique_strings' = NewTable(dictionary)
    /\ writes' = [k \in 0 .. MapLen(dictionary) - 1 |-> 0]
    /\ iter' = Keys(dictionary)
    /\ pc' = "convert"
    /\ entered' = entered \cup {"convert"}
    /\ UNCHANGED << raw_strings, fn, i, dictionary, dictionary_array, result, ret,
                    plain_ret, validations, validated, rejected, converted >>

\* Mutant of DebugConvert: the String is printed but never stored.
DebugConvertNoStore(key) ==
    /\ fn = "process_otlp_strings_debug"
    /\ pc = "convert"
    /\ key \in iter
    /\ iter' = iter \ {key}
    /\ converted' = converted \cup {key}
    /\ \E s \in from_utf8_unchecked(key) :
           stdout' = Append(stdout, Line("Converted to String", << dictionary[key], s >>))
    /\ UNCHANGED << raw_strings, fn, pc, i, dictionary, dictionary_array,
                    unique_strings, result, ret, plain_ret, validations, validated,
                    rejected, writes, entered >>

\* One iteration of the draining loop: the String is printed, then
\* `unique_strings[index] = s`.
DebugConvert(key) ==
    /\ fn = "process_otlp_strings_debug"
    /\ pc = "convert"
    /\ key \in iter
    /\ iter' = iter \ {key}
    /\ converted' = converted \cup {key}
    /\ LET index == dictionary[key]
       IN  \E s \in from_utf8_unchecked(key) :
               /\ stdout' = Append(stdout, Line("Converted to String", << index, s >>))
               /\ IF index \in DOMAIN unique_strings
                  THEN /\ unique_strings' = [unique_strings EXCEPT ![index] = s]
                       /\ writes' = [writes EXCEPT ![index] = @ + 1]
                       /\ UNCHANGED << pc, ret >>
                  ELSE /\ ret' = Panic
                       /\ pc' = "done"
                       /\ UNCHANGED << unique_strings, writes >>
    /\ UNCHANGED << raw_strings, fn, i, dictionary, dictionary_array, result, plain_ret,
                    validations, validated, rejected, entered >>

\* The dictionary is drained: "Step 4" is printed and
\* dictionary_array.iter().enumerate().map(..) begins.
DebugConvertDone ==
    /\ fn = "process_otlp_strings_debug"
    /\ pc = "convert"
    /\ iter = {}
    /\ stdout' = Append(stdout, Line("Step 4", <<>>))
    /\ pc' = "reconstruct"
    /\ entered' = entered \cup {"reconstruct"}
    /\ UNCHANGED << raw_strings, fn, i, dictionary, dictionary_array, iter,
                    unique_strings, result, ret, plain_ret, validations, validated,
                    rejected, converted, writes >>

\* One element of the map: `unique_strings[dict_idx].clone()`, then its line.
DebugReconstruct ==
    /\ fn = "process_otlp_strings_debug"
    /\ pc = "reconstruct"
    /\ Len(result) < Len(dictionary_array)
    /\ LET orig_idx == Len(result)
           dict_idx == dictionary_array[orig_idx + 1]
       IN  IF dict_idx \in DOMAIN unique_strings
           THEN /\ result' = Append(result, unique_strings[dict_idx])
                /\ stdout' = Append(stdout,
                     Line("Result", << orig_idx, dict_idx, unique_strings[dict_idx] >>))
                /\ UNCHANGED << pc, ret >>
           ELSE /\ ret' = Panic
                /\ pc' = "done"
                /\ UNCHANGED << result, stdout >>
    /\ UNCHANGED << raw_strings, fn, i, dictionary, dictionary_array, iter,
                    unique_strings, plain_ret, history >>

\* collect() is complete: "Final result" is printed, then `Ok(result)`.
DebugReturn ==
    /\ fn = "process_otlp_strings_debug"
    /\ pc = "reconstruct"
    /\ Len(result) = Len(dictionary_array)
    /\ stdout' = Append(stdout, Line("Final result", << result >>))
    /\ ret' = Ok(result)
    /\ pc' = "done"
    /\ UNCHANGED << raw_strings, fn, i, dictionary, dictionary_array, iter,
                    unique_strings, result, plain_ret, history >>

\* ------------------------------------------------------------ behaviours

Next ==
    \/ Intern
    \/ InternDone
    \/ \E key \in Entries : Validate(key)
    \/ ValidateDone
    \/ \E key \in Entries : Convert(key)
    \/ ConvertDone
    \/ Reconstruct
    \/ Return
    \/ DebugEntry
    \/ DebugIntern
    \/ DebugInternDone
    \/ \E key \in Entries : DebugValidate(key)
    \/ DebugValidateDone
    \/ \E key \in Entries : DebugConvert(key)
    \/ DebugConvertDone
    \/ DebugReconstruct
    \/ DebugReturn

Spec == Init /\ [][Next]_vars

\* ------------------------------------------------------------ properties

\* The distinct byte sequences of an input.
Distinct(raw) == { raw[k] : k \in 1 .. Len(raw) }

AllValid(raw) == \A k \in 1 .. Len(raw) : IsValidUtf8(raw[k])

\* Position (zero-based) of the first occurrence of key in raw.
FirstPos(raw, key) ==
    CHOOSE k \in 0 .. Len(raw) - 1 :
        /\ raw[k + 1] = key
        /\ \A j \in 0 .. k - 1 : raw[j + 1] # key

\* The entries the interning loop has consumed so far.
Consumed == { raw_strings[k] : k \in 1 .. i }

\* C1 -- Order preservation: a call whose input entries are all well-formed
\* UTF-8 returns Ok(output) with len(output) = len(input) and, at every index,
\* output[k] holding exactly the bytes of input[k], whatever order the
\* HashMap was iterated in.
C1_OrderPreservation ==
    (pc = "done" /\ AllValid(raw_strings)) =>
        /\ ret.tag = "Ok"
        /\ Len(ret.value) = Len(raw_strings)
        /\ \A k \in 1 .. Len(raw_strings) : ret.value[k].vec = raw_strings[k]

\* A successful call of process_otlp_strings on three entries whose first and
\* third are the same multi-byte sequence, not adjacent.
C1_Witness ==
    /\ fn = "process_otlp_strings"
    /\ pc = "done"
    /\ ret.tag = "Ok"
    /\ raw_strings = << <<195, 169>>, <<97>>, <<195, 169>> >>

\* C2 -- Fail-fast: a call whose input holds at least one entry that is not
\* well-formed UTF-8, at any position, returns an error and no output: the
\* entry is neither skipped nor replaced and nothing is collected.
C2_FailFast ==
    (pc = "done" /\ ~AllValid(raw_strings)) =>
        /\ ret.tag = "Err"
        /\ result = <<>>
        /\ unique_strings = <<>>

\* A failed call of process_otlp_strings whose malformed entry is duplicated,
\* comes after a well-formed one, and was met after the well-formed key had
\* passed validation.
C2_Witness ==
    /\ fn = "process_otlp_strings"
    /\ pc = "done"
    /\ ret.tag = "Err"
    /\ raw_strings = << <<97>>, <<195>>, <<195>> >>
    /\ validated = { <<97>> }

\* C3 as stated -- Validate-once: in every call the number of validations
\* performed equals the number of distinct byte sequences of the input.
C3_ValidateOnce_AsStated ==
    pc = "done" => validations = Cardinality(Distinct(raw_strings))

\* C3 amended -- no distinct byte sequence is validated twice; a call that
\* returns Ok has performed exactly as many validations as the input has
\* distinct byte sequences; a call that returns an error has performed at
\* least one validation and at most that many.
C3_ValidateOnce ==
    /\ validated \cup rejected \subseteq Distinct(raw_strings)
    /\ validations = Cardinality(validated \cup rejected)
    /\ (pc = "done" /\ ret.tag = "Ok") =>
            validations = Cardinality(Distinct(raw_strings))
    /\ (pc = "done" /\ ret.tag = "Err") =>
            /\ validations >= 1
            /\ validations <= Cardinality(Distinct(raw_strings))

\* A successful call on three entries, two of them equal: two validations.
C3_Witness ==
    /\ fn = "process_otlp_strings"
    /\ pc = "done"
    /\ ret.tag = "Ok"
    /\ Len(raw_strings) = 3
    /\ raw_strings[1] = raw_strings[3]
    /\ raw_strings[1] # raw_strings[2]
    /\ validations = 2

\* C4 -- process_otlp_strings_debug returns what process_otlp_strings returns
\* on the same input: the same output on success, the same error on failure.
C4_DebugEquivalence ==
    (fn = "process_otlp_strings_debug" /\ pc = "done") => ret = plain_ret

\* Both calls have returned Ok on an input with a repeated entry, and the
\* debug call has printed its trace.
C4_Witness ==
    /\ fn = "process_otlp_strings_debug"
    /\ pc = "done"
    /\ ret.tag = "Ok"
    /\ plain_ret.tag = "Ok"
    /\ raw_strings = << <<97>>, <<226, 130, 172>>, <<97>> >>
    /\ Len(stdout) > Len(raw_strings)

\* What an error value says about a dictionary entry: each field it carries
\* (the content, the identifier, the offset of the first invalid byte) must
\* agree with the entry.
FirstInvalidOffset(b) ==
    CHOOSE p \in 0 .. Len(b) : ValidFrom(SubSeq(b, 1, p), 1) /\
        (p = Len(b) \/ CharLen(b, p + 1) = 0)

Agrees(e, key) ==
    /\ "content" \in DOMAIN e => e.content = key
    /\ "identifier" \in DOMAIN e => e.identifier = dictionary[key]
    /\ "offset" \in DOMAIN e =>
            (~IsValidUtf8(key) /\ e.offset = FirstInvalidOffset(key))

\* C5 -- The error of a failed call identifies the malformed distinct entry:
\* what it carries (content, identifier and/or offset) agrees with the entry
\* that was refused and with no other entry of the dictionary.
C5_ErrorIdentifiesEntry ==
    (pc = "done" /\ ret.tag = "Err") =>
        \A key \in DOMAIN dictionary : Agrees(ret.err, key) => key \in rejected

\* C6 -- Dictionary invariant: at every step the identifiers are exactly
\* 0 .. len-1, no two contents share one, the keys are the contents consumed
\* so far, identifiers follow first occurrence in the input, and within a
\* call an identifier once assigned to a content is never changed or dropped.
C6_DictionaryShape ==
    /\ DOMAIN dictionary = Consumed
    /\ { dictionary[k] : k \in DOMAIN dictionary } = 0 .. MapLen(dictionary) - 1
    /\ \A k1, k2 \in DOMAIN dictionary :
            /\ dictionary[k1] = dictionary[k2] => k1 = k2
            /\ dictionary[k1] < dictionary[k2] <=>
                    FirstPos(raw_strings, k1) < FirstPos(raw_strings, k2)

C6_DictionaryStable ==
    fn' = fn =>
        \A k \in DOMAIN dictionary :
            k \in DOMAIN dictionary' /\ dictionary'[k] = dictionary[k]

C6_DictionaryInvariant == []C6_DictionaryShape /\ [][C6_DictionaryStable]_vars

\* The interning loop has just re-interned the content of the first entry as
\* the third one: two identifiers for three consumed entries.
C6_Witness ==
    /\ pc = "intern"
    /\ i = 3
    /\ raw_strings[3] = raw_strings[1]
    /\ raw_strings[2] # raw_strings[1]
    /\ MapLen(dictionary) = 2

\* C7 -- Reference-array invariant: after n consumed entries dictionary_array
\* has length n and dictionary_array[k] is the identifier of the dictionary
\* entry whose content is input[k]; once interning is over it is as long as
\* the input.
C7_ReferenceArray ==
    /\ Len(dictionary_array) = i
    /\ \A k \in 1 .. i :
            /\ raw_strings[k] \in DOMAIN dictionary
            /\ dictionary_array[k] = dictionary[raw_strings[k]]
    /\ pc # "intern" => Len(dictionary_array) = Len(raw_strings)

\* Interning is over for an input whose third entry repeats the first.
C7_Witness ==
    /\ pc = "validate"
    /\ dictionary_array = << 0, 1, 0 >>
    /\ Len(raw_strings) = 3

\* C8 -- Abort on first failure: as soon as validation has refused a key the
\* call has returned the error; exactly one key was refused and it was the
\* last one validated, and neither the text table nor the output was begun.
C8_AbortOnFirstFailure ==
    rejected # {} =>
        /\ pc = "done"
        /\ ret.tag = "Err"
        /\ Cardinality(rejected) = 1
        /\ validations = Cardinality(validated) + 1
        /\ entered = {"intern", "validate"}
        /\ unique_strings = <<>>
        /\ result = <<>>

\* A call failed on one of two malformed keys after one well-formed key had
\* passed: the other malformed key was never validated.
C8_Witness ==
    /\ pc = "done"
    /\ ret.tag = "Err"
    /\ DOMAIN dictionary = { <<97>>, <<195>>, <<255, 240, 159>> }
    /\ validated = { <<97>> }
    /\ validations = 2

\* C9 -- Validation precedes unchecked conversion: from_utf8_unchecked is only
\* applied to keys from_utf8 accepted earlier in the same call, the text table
\* exists only once every key has passed, and a slot of the table holds either
\* its initial empty String or well-formed bytes that were validated.
C9_ValidatedBeforeConversion ==
    /\ converted \subseteq validated
    /\ \A key \in validated : IsValidUtf8(key)
    /\ "convert" \in entered =>
            /\ validated = DOMAIN dictionary
            /\ rejected = {}
    /\ \A k \in DOMAIN unique_strings :
            \/ unique_strings[k] = StringNew
            \/ /\ unique_strings[k].vec \in validated
               /\ IsValidUtf8(unique_strings[k].vec)

\* The draining loop has converted a multi-byte key and has another to go.
C9_Witness ==
    /\ pc = "convert"
    /\ <<195, 169>> \in converted
    /\ iter # {}

\* C10 -- Materialization is infallible: the table has one slot per
\* identifier; a drained key has written its own slot exactly once with its
\* own content and an undrained key has not written; every identifier of
\* dictionary_array is an index of the table; once draining is over every
\* slot was written once, every collected element is the content of its input
\* entry, and no call panics.
C10_MaterializationInfallible ==
    /\ ret.tag # "Panic"
    /\ "convert" \in entered =>
            /\ DOMAIN unique_strings = 0 .. MapLen(dictionary) - 1
            /\ \A k \in 1 .. Len(dictionary_array) :
                    dictionary_array[k] \in DOMAIN unique_strings
            /\ \A key \in DOMAIN dictionary :
                    IF key \in iter /\ pc = "convert"
                    THEN writes[dictionary[key]] = 0
                    ELSE /\ writes[dictionary[key]] = 1
                         /\ unique_strings[dictionary[key]] = String(key)
    /\ "reconstruct" \in entered =>
            /\ \A k \in DOMAIN unique_strings : writes[k] = 1
            /\ \A k \in 1 .. Len(result) : result[k] = String(raw_strings[k])

\* The output of three entries over two non-empty contents is collected.
C10_Witness ==
    /\ pc = "reconstruct"
    /\ Len(result) = 3
    /\ MapLen(dictionary) = 2
    /\ <<>> \notin DOMAIN dictionary

====
